---- MODULE Spec2Model ----
(***************************************************************************)
(* Model of registry/actors.go: the RepoActor (one goroutine and one       *)
(* unbuffered channel per repository), the RegistryActor (the Repos map,   *)
(* its mutex and its command loop) and the CoordinatorActor (dependency    *)
(* graph, completion map and handleCompletion).                            *)
(*                                                                         *)
(* Every channel of the program is made with make(chan T): unbuffered, so  *)
(* a send completes only when the receiving goroutine is at its receive.   *)
(* A goroutine is modelled by a position (pc) and every blocking           *)
(* operation (a send) is a step of its own; the statements between two     *)
(* blocking operations form one step.  An unrecovered panic ends the       *)
(* process: crashed.                                                       *)
(***************************************************************************)
EXTENDS Naturals, Sequences, FiniteSets, TLC

\* ------------------------------------------------------------- bounds
\* Number of RepoActors ever created (NewRepoActor calls).
MaxActors == 4
\* Number of commands the clients send to the RegistryActor's channel.
MaxCmds == 4
\* Number of inputs in the runs that start from a populated registry
\* (SpecCoord):
\* commands to the RegistryActor, RepoCompleted messages to the
\* CoordinatorActor and AddDependency calls.
MaxInputs == 3
\* Number of inputs in the runs of the whole program (SpecLive): commands,
\* ScanDir, the shutdown signal, RepoCompleted messages, AddDependency and
\* ListItems calls.
MaxLive == 4

Names == {"A", "B", "C"}
Paths == {"p1", "p2"}
\* The dependency lists AddDependency is called with.
DepChoices == {{}, {"A"}}
\* The names and paths of the commands in the runs that start from a
\* populated registry (SpecCoord).
CoordCmdNames == {"B"}
CoordPaths == {"p1"}

VARIABLES
    actors,     \* every RepoActor ever created, by creation order: its fields,
                \* the position of its goroutine, the state of its MsgChan
    Repos,      \* RegistryActor.Repos: name -> index into actors
    rpc,        \* position of the RegistryActor goroutine
    rname,      \* Name of the command being handled
    rpath,      \* Path of the command being handled
    rmutex,     \* RegistryActor.mutex is held
    Graph,      \* CoordinatorActor.Graph: name -> dependencies
    Completed,  \* CoordinatorActor.Completed: the names mapped to true
    cpc,        \* position of the CoordinatorActor goroutine
    ctodo,      \* Graph keys the range loop has not visited yet
    ccur,       \* the loop variable repo
    ctarget,    \* the RepoActor whose MsgChan the pending send operates on
    cmutex,     \* CoordinatorActor.mutex is held
    cmsg,       \* msg.Name of the RepoCompleted being (or last) handled
    cbefore,    \* observation: Completed when that message arrived
    crashed,    \* the process died of a panic or a runtime fatal error
    cissued,    \* observation: name -> <<ConfigureDocker, ConfigurePipeline>>
                \* messages the CoordinatorActor has delivered for it
    budget,     \* number of inputs the environment may still make
    rclosed,    \* RegistryActor.MsgChan has been closed (shutdown)
    lpc,        \* position of the goroutine that called ListItems
    ltodo,      \* Repos keys its range loop has not visited yet
    lcur,       \* the RepoActor whose fields it is reading
    lenabled,   \* the value it read from repo.Active
    lstart,     \* observation: how many messages that actor had handled then
    litems,     \* the slice items of the ListItems call (the last one made)
    npc,        \* position of NewRegistry in the goroutine of main
    ntodo,      \* repositories discoverRepositories has still to send
    last        \* observation: the outcome the last step reported, if any

vars == <<actors, Repos, rpc, rname, rpath, rmutex, Graph, Completed, cpc,
          ctodo, ccur, ctarget, cmutex, cmsg, cbefore, crashed, cissued, budget,
          rclosed, lpc, ltodo, lcur, lenabled, lstart, litems, npc, ntodo,
          last>>

regVars == <<Repos, rpc, rname, rpath, rmutex>>
coordVars == <<Graph, Completed, cpc, ctodo, ccur, ctarget, cmutex, cmsg,
               cbefore, cissued>>

listVars == <<lpc, ltodo, lcur, lenabled, lstart, litems>>
startVars == <<npc, ntodo>>
\* What the steps of the actors, of the command handlers and of
\* handleCompletion leave alone.
extVars == <<rclosed, listVars, startVars>>

None == "none"
\* What a step reports: the command or message it received and the outcome.
Event(k, n, p, r) == [kind |-> k, name |-> n, path |-> p, result |-> r]
NoEvent == Event(None, None, None, None)

\* ------------------------------------------------------------ RepoActor

\* Mutant of NewRepoActor: both guards start set.
NewRepoActorConfigured(name, path) ==
    [Name |-> name, Path |-> path, Active |-> TRUE,
     IsDocker |-> TRUE, HasPipeline |-> TRUE,
     pc |-> "recv", msg |-> None, closed |-> FALSE,
     dockerCalls |-> 0, dockerWritten |-> FALSE,
     pipelineCalls |-> 0, pipelineWritten |-> FALSE,
     handled |-> <<>>, toggleCmds |-> 0]

\* NewRepoActor: Active true, IsDocker and HasPipeline zero values.  pc, msg
\* and closed are the goroutine started by Start and the channel MsgChan.
\* dockerCalls/pipelineCalls count the calls of addDockerfile/setupPipeline,
\* dockerWritten/pipelineWritten record that a call wrote its file,
\* handled lists the messages the goroutine has handled, in order,
\* toggleCmds counts the ToggleRepo commands toggleRepo found this actor for.
NewRepoActor(name, path) ==
    [Name |-> name, Path |-> path, Active |-> TRUE,
     IsDocker |-> FALSE, HasPipeline |-> FALSE,
     pc |-> "recv", msg |-> None, closed |-> FALSE,
     dockerCalls |-> 0, dockerWritten |-> FALSE,
     pipelineCalls |-> 0, pipelineWritten |-> FALSE,
     handled |-> <<>>, toggleCmds |-> 0]

\* Mutant of ToggleActive: the flag is cleared, not flipped.
ToggleOff(a) == [a EXCEPT !.Active = FALSE]

\* Mutant of ToggleActive: the flip also clears the docker guard.
ToggleAndReset(a) == [a EXCEPT !.Active = ~a.Active, !.IsDocker = FALSE]

\* r.Active = !r.Active
ToggleActive(a) == [a EXCEPT !.Active = ~a.Active]

\* Mutants of DockerGuard: without the idempotence guard, and without the
\* test of Active.
DockerGuardNoIdem(a) == a.Active
DockerGuardNoActive(a) == ~a.IsDocker

\* if r.Active && !r.IsDocker
DockerGuard(a) == a.Active /\ ~a.IsDocker

\* if r.Active && !r.HasPipeline
PipelineGuard(a) == a.Active /\ ~a.HasPipeline

\* addDockerfile: os.WriteFile succeeds (ok) or fails; the error is printed
\* and nothing is returned to the caller.
addDockerfile(a, ok) ==
    [a EXCEPT !.dockerCalls = a.dockerCalls + 1,
              !.dockerWritten = a.dockerWritten \/ ok]

\* setupPipeline: os.MkdirAll then os.WriteFile; ok is that both succeeded.
setupPipeline(a, ok) ==
    [a EXCEPT !.pipelineCalls = a.pipelineCalls + 1,
              !.pipelineWritten = a.pipelineWritten \/ ok]

\* case ConfigureDocker
HandleConfigureDocker(a, ok) ==
    IF DockerGuard(a)
    THEN [addDockerfile(a, ok) EXCEPT !.IsDocker = TRUE]
    ELSE a

\* case ConfigurePipeline
HandleConfigurePipeline(a, ok) ==
    IF PipelineGuard(a)
    THEN [setupPipeline(a, ok) EXCEPT !.HasPipeline = TRUE]
    ELSE a

\* Mutant of Handle: the default case flips Active.
HandleDefaultToggles(a, m, ok) ==
    CASE m = "ToggleRepo" -> ToggleActive(a)
      [] m = "ConfigureDocker" -> HandleConfigureDocker(a, ok)
      [] m = "ConfigurePipeline" -> HandleConfigurePipeline(a, ok)
      [] m = "InitRepo" -> a
      [] m = "ReportCompletion" -> a
      [] OTHER -> ToggleActive(a)

\* The switch of RepoActor.Start on the received message.
Handle(a, m, ok) ==
    CASE m = "ToggleRepo" -> ToggleActive(a)
      [] m = "ConfigureDocker" -> HandleConfigureDocker(a, ok)
      [] m = "ConfigurePipeline" -> HandleConfigurePipeline(a, ok)
      [] m = "InitRepo" -> a
      [] m = "ReportCompletion" -> a
      [] OTHER -> a

\* Mutant of CanSend: the send completes while the goroutine is in a handler.
CanSendWhileBusy(w) == ~actors[w].closed

\* A send on w's MsgChan can complete: the goroutine is at its receive.
CanSend(w) == actors[w].pc = "recv" /\ ~actors[w].closed

\* Mutant of Deliver: the message goes to the first actor.
DeliverToFirst(w, m) ==
    [actors EXCEPT ![1].pc = "busy", ![1].msg = m]

\* The send completes: the goroutine of w now holds m.
Deliver(w, m) ==
    [actors EXCEPT ![w].pc = "busy", ![w].msg = m]

\* Mutant of ActorHandle: the ReportCompletion case also records the name
\* in the CoordinatorActor's completion map.
ActorHandleMarks(w) ==
    /\ ~crashed
    /\ actors[w].pc = "busy"
    /\ \E ok \in BOOLEAN :
        /\ actors' = [actors EXCEPT
              ![w] = [Handle(actors[w], actors[w].msg, ok) EXCEPT
                         !.pc = "recv", !.msg = None,
                         !.handled = Append(@, actors[w].msg)]]
        /\ last' = NoEvent
    /\ Completed' = IF actors[w].msg = "ReportCompletion"
                    THEN Completed \cup {actors[w].Name}
                    ELSE Completed
    /\ UNCHANGED <<regVars, Graph, cpc, ctodo, ccur, ctarget, cmutex, cmsg,
                   cbefore, cissued, crashed, budget>>
    /\ UNCHANGED extVars

\* One iteration of "for msg := range r.MsgChan": the switch on the message.
ActorHandle(w) ==
    /\ ~crashed
    /\ actors[w].pc = "busy"
    /\ \E ok \in BOOLEAN :
        /\ actors' = [actors EXCEPT
              ![w] = [Handle(actors[w], actors[w].msg, ok) EXCEPT
                         !.pc = "recv", !.msg = None,
                         !.handled = Append(@, actors[w].msg)]]
        /\ last' = NoEvent
    /\ UNCHANGED <<regVars, coordVars, crashed, budget>>
    /\ UNCHANGED extVars

\* The range loop ends on the closed channel.
ActorExit(w) ==
    /\ ~crashed
    /\ actors[w].pc = "recv"
    /\ actors[w].closed
    /\ actors' = [actors EXCEPT ![w].pc = "exit"]
    /\ last' = NoEvent
    /\ UNCHANGED <<regVars, coordVars, crashed, budget>>
    /\ UNCHANGED extVars

\* -------------------------------------------------------- RegistryActor

\* Mutant of Exists: the lookup never finds the name.
ExistsNever(name) == FALSE

\* _, exists := r.Repos[name]
Exists(name) == name \in DOMAIN Repos

\* Mutant of MapInsert: the entry is not written.
MapInsertNothing(m, name, v) == m

\* m[name] = v
MapInsert(m, name, v) ==
    [n \in DOMAIN m \cup {name} |-> IF n = name THEN v ELSE m[n]]

\* Mutant of MapDelete: the entry stays in the map.
MapDeleteNothing(m, name) == m

\* delete(m, name)
MapDelete(m, name) == [n \in DOMAIN m \ {name} |-> m[n]]

\* Mutant of RegistryReceives: a command is taken up while the handler of
\* the one before is at a send.
ReceivesWhileHandling == ~crashed /\ ~rclosed /\ budget > 0

\* The goroutine is at "for msg := range r.MsgChan" and a client's send of
\* one more command completes.
RegistryReceives ==
    ~crashed /\ rpc = "recv" /\ ~rclosed /\ ~rmutex /\ budget > 0

\* Mutant of RegistryReturns: the handler returns without the Unlock.
ReturnsLocked ==
    /\ rpc' = "recv" /\ rmutex' = TRUE /\ rname' = None /\ rpath' = None

\* The handler returns: the deferred Unlock, back to the receive.
RegistryReturns ==
    /\ rpc' = "recv" /\ rmutex' = FALSE /\ rname' = None /\ rpath' = None

\* case AddRepo: addRepo locks the mutex and looks the name up.
RecvAddRepo(name, path) ==
    /\ RegistryReceives
    /\ Exists(name) \/ Len(actors) < MaxActors
    /\ budget' = budget - 1
    /\ IF Exists(name)
       THEN /\ RegistryReturns
            /\ last' = Event("AddRepo", name, path, "duplicate")
       ELSE /\ rpc' = "addInsert" /\ rmutex' = TRUE
            /\ rname' = name /\ rpath' = path
            /\ last' = Event("AddRepo", name, path, "accepted")
    /\ UNCHANGED <<actors, Repos, coordVars, crashed>>
    /\ UNCHANGED extVars

\* repo := NewRepoActor(name, path, r.wg); repo.Start(); r.Repos[name] = repo
AddInsert ==
    /\ ~crashed /\ rpc = "addInsert"
    /\ actors' = Append(actors, NewRepoActor(rname, rpath))
    /\ Repos' = MapInsert(Repos, rname, Len(actors) + 1)
    /\ rpc' = "addSendInit"
    /\ last' = NoEvent
    /\ UNCHANGED <<rname, rpath, rmutex, budget, coordVars, crashed>>
    /\ UNCHANGED extVars

\* repo.MsgChan <- InitRepo{}
AddSendInit ==
    /\ ~crashed /\ rpc = "addSendInit"
    /\ CanSend(Repos[rname])
    /\ actors' = Deliver(Repos[rname], "InitRepo")
    /\ RegistryReturns
    /\ last' = NoEvent
    /\ UNCHANGED <<Repos, budget, coordVars, crashed>>
    /\ UNCHANGED extVars

\* case RemoveRepo: removeRepo locks the mutex and looks the name up.
RecvRemoveRepo(name) ==
    /\ RegistryReceives
    /\ budget' = budget - 1
    /\ IF Exists(name)
       THEN /\ rpc' = "rmSend" /\ rmutex' = TRUE
            /\ rname' = name /\ rpath' = None
            /\ last' = Event("RemoveRepo", name, None, "found")
       ELSE /\ RegistryReturns
            /\ last' = Event("RemoveRepo", name, None, "notFound")
    /\ UNCHANGED <<actors, Repos, coordVars, crashed>>
    /\ UNCHANGED extVars

\* repo.MsgChan <- ReportCompletion{Name: name}
RemoveSend ==
    /\ ~crashed /\ rpc = "rmSend"
    /\ CanSend(Repos[rname])
    /\ actors' = Deliver(Repos[rname], "ReportCompletion")
    /\ rpc' = "rmClose"
    /\ last' = NoEvent
    /\ UNCHANGED <<Repos, rname, rpath, rmutex, budget, coordVars, crashed>>
    /\ UNCHANGED extVars

\* close(repo.MsgChan)
RemoveClose ==
    /\ ~crashed /\ rpc = "rmClose"
    /\ actors' = [actors EXCEPT ![Repos[rname]].closed = TRUE]
    /\ rpc' = "rmDelete"
    /\ last' = NoEvent
    /\ UNCHANGED <<Repos, rname, rpath, rmutex, budget, coordVars, crashed>>
    /\ UNCHANGED extVars

\* delete(r.Repos, name)
RemoveDelete ==
    /\ ~crashed /\ rpc = "rmDelete"
    /\ Repos' = MapDelete(Repos, rname)
    /\ last' = NoEvent
    /\ RegistryReturns
    /\ UNCHANGED <<actors, budget, coordVars, crashed>>
    /\ UNCHANGED extVars

\* case ToggleRepo: toggleRepo locks the mutex and looks the name up.
RecvToggleRepo(name) ==
    /\ RegistryReceives
    /\ budget' = budget - 1
    /\ IF Exists(name)
       THEN /\ rpc' = "tgSend" /\ rmutex' = TRUE
            /\ rname' = name /\ rpath' = None
            /\ actors' = [actors EXCEPT ![Repos[name]].toggleCmds = @ + 1]
            /\ last' = Event("ToggleRepo", name, None, "found")
       ELSE /\ RegistryReturns
            /\ actors' = actors
            /\ last' = Event("ToggleRepo", name, None, "notFound")
    /\ UNCHANGED <<Repos, coordVars, crashed>>
    /\ UNCHANGED extVars

\* repo.MsgChan <- ToggleRepo{Name: name}
ToggleSend ==
    /\ ~crashed /\ rpc = "tgSend"
    /\ CanSend(Repos[rname])
    /\ actors' = Deliver(Repos[rname], "ToggleRepo")
    /\ RegistryReturns
    /\ last' = NoEvent
    /\ UNCHANGED <<Repos, budget, coordVars, crashed>>
    /\ UNCHANGED extVars

\* case ConfigureRepo: configureRepo locks the mutex and looks the name up.
RecvConfigureRepo(name) ==
    /\ RegistryReceives
    /\ budget' = budget - 1
    /\ IF Exists(name)
       THEN /\ rpc' = "cfSendDocker" /\ rmutex' = TRUE
            /\ rname' = name /\ rpath' = None
            /\ last' = Event("ConfigureRepo", name, None, "found")
       ELSE /\ RegistryReturns
            /\ last' = Event("ConfigureRepo", name, None, "notFound")
    /\ UNCHANGED <<actors, Repos, coordVars, crashed>>
    /\ UNCHANGED extVars

\* repo.MsgChan <- ConfigureDocker{}
ConfigureSendDocker ==
    /\ ~crashed /\ rpc = "cfSendDocker"
    /\ CanSend(Repos[rname])
    /\ actors' = Deliver(Repos[rname], "ConfigureDocker")
    /\ rpc' = "cfSendPipeline"
    /\ last' = NoEvent
    /\ UNCHANGED <<Repos, rname, rpath, rmutex, budget, coordVars, crashed>>
    /\ UNCHANGED extVars

\* repo.MsgChan <- ConfigurePipeline{}
ConfigureSendPipeline ==
    /\ ~crashed /\ rpc = "cfSendPipeline"
    /\ CanSend(Repos[rname])
    /\ actors' = Deliver(Repos[rname], "ConfigurePipeline")
    /\ RegistryReturns
    /\ last' = NoEvent
    /\ UNCHANGED <<Repos, budget, coordVars, crashed>>
    /\ UNCHANGED extVars

\* ----------------------------------------------------- CoordinatorActor

\* Mutant of AllDepsMet: allDepsMet is never set to false.
DepsIgnored(deps, completed) == TRUE

\* The loop over deps: allDepsMet stays true iff every dep is completed.
AllDepsMet(deps, completed) == \A dep \in deps : dep \in completed

\* Mutant of AlreadyCompleted: completed entries are not skipped.
NeverCompleted(repo, completed) == FALSE

\* if c.Completed[repo] { continue }
AlreadyCompleted(repo, completed) == repo \in completed

\* Mutant of MarkCompleted: the name is not recorded.
MarkNothing(completed, name) == completed

\* Mutant of MarkCompleted: the map is replaced by one with this name only.
MarkOnly(completed, name) == {name}

\* c.Completed[name] = true
MarkCompleted(completed, name) == completed \cup {name}

\* Mutant of AddDependency: the write is made without c.mutex.
AddDependencyUnlocked(repo, dependsOn) ==
    /\ ~crashed /\ budget > 0
    /\ budget' = budget - 1
    /\ Graph' = MapInsert(Graph, repo, dependsOn)
    /\ last' = NoEvent
    /\ UNCHANGED <<actors, regVars, Completed, cpc, ctodo, ccur, ctarget,
                   cmutex, cmsg, cbefore, cissued, crashed>>
    /\ UNCHANGED extVars

\* c.Graph[repo] = dependsOn, under c.mutex.
AddDependency(repo, dependsOn) ==
    /\ ~crashed /\ ~cmutex /\ budget > 0
    /\ budget' = budget - 1
    /\ Graph' = MapInsert(Graph, repo, dependsOn)
    /\ last' = NoEvent
    /\ UNCHANGED <<actors, regVars, Completed, cpc, ctodo, ccur, ctarget,
                   cmutex, cmsg, cbefore, cissued, crashed>>
    /\ UNCHANGED extVars

\* The goroutine receives RepoCompleted{name}: handleCompletion locks the
\* mutex, sets c.Completed[msg.Name] = true and starts "range c.Graph".
RecvRepoCompleted(name) ==
    /\ ~crashed /\ cpc = "recv" /\ ~cmutex /\ budget > 0
    /\ budget' = budget - 1
    /\ Completed' = MarkCompleted(Completed, name)
    /\ cmsg' = name /\ cbefore' = Completed
    /\ ctodo' = DOMAIN Graph
    /\ cpc' = "scan" /\ cmutex' = TRUE
    /\ last' = Event("RepoCompleted", name, None, "marked")
    /\ UNCHANGED <<actors, regVars, Graph, ccur, ctarget, cissued, crashed>>
    /\ UNCHANGED extVars

\* The read of c.registry.Repos[repo] is made without r.mutex.  While the
\* RegistryActor is at a write of the map the runtime may end the process
\* ("concurrent map read and map write").
MapWritePending == rpc \in {"addInsert", "rmDelete"}

\* c.registry.Repos[repo].MsgChan: the channel operand of the next send.
\* A name that is not in the map yields a nil *RepoActor, whose field read
\* panics.
Lookup(repo, next) ==
    \/ /\ repo \in DOMAIN Repos
       /\ ctarget' = Repos[repo]
       /\ ccur' = repo
       /\ cpc' = next
       /\ crashed' = FALSE
       /\ last' = NoEvent
    \/ /\ repo \notin DOMAIN Repos \/ MapWritePending
       /\ crashed' = TRUE
       /\ ccur' = repo
       /\ last' = Event("panic", repo, None,
                        IF repo \in DOMAIN Repos THEN "mapRace" ELSE "nilActor")
       /\ UNCHANGED <<ctarget, cpc>>

\* One iteration of "for repo, deps := range c.Graph", in the order the
\* runtime picks, up to the first send.
ScanEntry ==
    /\ ~crashed /\ cpc = "scan"
    /\ \E repo \in ctodo :
        /\ ctodo' = ctodo \ {repo}
        /\ IF \/ AlreadyCompleted(repo, Completed)
              \/ ~AllDepsMet(Graph[repo], Completed)
           THEN /\ last' = NoEvent
                /\ UNCHANGED <<ccur, ctarget, cpc, crashed>>
           ELSE Lookup(repo, "sendDocker")
    /\ UNCHANGED <<actors, regVars, Graph, Completed, cmutex, cmsg, cbefore,
                   cissued, budget>>
    /\ UNCHANGED extVars

\* c.registry.Repos[repo].MsgChan <- ConfigureDocker{}
CoordSendDocker ==
    /\ ~crashed /\ cpc = "sendDocker"
    /\ CanSend(ctarget)
    /\ actors' = Deliver(ctarget, "ConfigureDocker")
    /\ cissued' = [cissued EXCEPT ![ccur] = <<@[1] + 1, @[2]>>]
    /\ cpc' = "lookupPipeline"
    /\ last' = NoEvent
    /\ UNCHANGED <<regVars, Graph, Completed, ctodo, ccur, ctarget, cmutex,
                   cmsg, cbefore, budget, crashed>>
    /\ UNCHANGED extVars

\* The channel operand of the second send.
CoordLookupPipeline ==
    /\ ~crashed /\ cpc = "lookupPipeline"
    /\ Lookup(ccur, "sendPipeline")
    /\ UNCHANGED <<actors, regVars, Graph, Completed, ctodo, cmutex, cmsg,
                   cbefore, cissued, budget>>
    /\ UNCHANGED extVars

\* c.registry.Repos[repo].MsgChan <- ConfigurePipeline{};
\* c.Completed[repo] = true
CoordSendPipeline ==
    /\ ~crashed /\ cpc = "sendPipeline"
    /\ CanSend(ctarget)
    /\ actors' = Deliver(ctarget, "ConfigurePipeline")
    /\ cissued' = [cissued EXCEPT ![ccur] = <<@[1], @[2] + 1>>]
    /\ Completed' = MarkCompleted(Completed, ccur)
    /\ cpc' = "scan" /\ ccur' = None /\ ctarget' = 0
    /\ last' = NoEvent
    /\ UNCHANGED <<regVars, Graph, ctodo, cmutex, cmsg, cbefore, budget,
                   crashed>>
    /\ UNCHANGED extVars

\* A send on a closed channel panics, also when the channel is closed
\* while the sender is blocked.
CoordSendPanic ==
    /\ ~crashed /\ cpc \in {"sendDocker", "sendPipeline"}
    /\ actors[ctarget].closed
    /\ crashed' = TRUE
    /\ last' = Event("panic", ccur, None, "closedChannel")
    /\ UNCHANGED <<actors, regVars, coordVars, budget>>
    /\ UNCHANGED extVars

\* The range loop is over: c.mutex.Unlock(), back to the receive.
ScanDone ==
    /\ ~crashed /\ cpc = "scan" /\ ctodo = {}
    /\ cpc' = "recv" /\ cmutex' = FALSE
    /\ last' = Event("RepoCompleted", cmsg, None, "handled")
    /\ UNCHANGED <<actors, regVars, Graph, Completed, ctodo, ccur, ctarget,
                   cmsg, cbefore, cissued, budget, crashed>>
    /\ UNCHANGED extVars

\* ---------------------------------------------- scanDirectory, shutdown

\* case ScanDir: scanDirectory walks the directory without the mutex.  first
\* is the first repository the walk finds (None: it finds none and returns).
\* For a repository found, the walk function sends AddRepo on r.MsgChan from
\* the RegistryActor's own goroutine.
RecvScanDir(first, path) ==
    /\ RegistryReceives
    /\ budget' = budget - 1
    /\ IF first = None
       THEN /\ rpc' = "recv" /\ rname' = None /\ rpath' = None
            /\ last' = Event("ScanDir", None, None, "nothingFound")
       ELSE /\ rpc' = "scanSend" /\ rname' = first /\ rpath' = path
            /\ last' = Event("ScanDir", first, path, "found")
    /\ UNCHANGED <<actors, Repos, rmutex, coordVars, crashed, extVars>>

\* r.MsgChan <- AddRepo{...} inside the walk: the channel is unbuffered and
\* its only receiver is the goroutine that is sending, so the send never
\* completes.  It ends only when main closes the channel: the blocked send
\* panics.
ScanSendPanic ==
    /\ ~crashed /\ rpc = "scanSend" /\ rclosed
    /\ crashed' = TRUE
    /\ last' = Event("panic", rname, None, "closedRegistryChan")
    /\ UNCHANGED <<actors, regVars, coordVars, budget, extVars>>

\* main, on SIGINT/SIGTERM: close(globalRegistry.Actor.MsgChan), then
\* wg.Wait() and os.Exit(0).
Shutdown ==
    /\ ~crashed /\ ~rclosed /\ budget > 0
    /\ budget' = budget - 1
    /\ rclosed' = TRUE
    /\ last' = Event("Shutdown", None, None, "closed")
    /\ UNCHANGED <<actors, regVars, coordVars, crashed, listVars, startVars>>

\* A command of the command line sent after the close: the send panics.
SendAfterClose ==
    /\ ~crashed /\ rclosed /\ budget > 0
    /\ budget' = budget - 1
    /\ crashed' = TRUE
    /\ last' = Event("panic", None, None, "closedRegistryChan")
    /\ UNCHANGED <<actors, regVars, coordVars, extVars>>

\* "for msg := range r.MsgChan" ends on the closed channel: wg.Done().
RegistryExit ==
    /\ ~crashed /\ rpc = "recv" /\ rclosed
    /\ rpc' = "exit"
    /\ last' = NoEvent
    /\ UNCHANGED <<actors, Repos, rname, rpath, rmutex, coordVars, crashed,
                   budget, extVars>>

\* The counter of the WaitGroup shared by all actors: one Add(1) per Start,
\* one Done() when the goroutine's range loop ends.  Nothing closes
\* CoordinatorActor.MsgChan, so its goroutine has no step that ends it.
WaitGroupCount ==
    (IF rpc \in {"exit", "notStarted"} THEN 0 ELSE 1)
        + (IF cpc = "notStarted" THEN 0 ELSE 1)
        + Cardinality({w \in 1..Len(actors) : actors[w].pc # "exit"})

\* wg.Wait() of main can return.
WaitCanReturn == WaitGroupCount = 0

\* ------------------------------------------------------------ ListItems

\* Mutant of ListLock: the range starts without r.mutex.
ListLockNoMutex ==
    /\ ~crashed /\ lpc = "idle" /\ budget > 0
    /\ budget' = budget - 1
    /\ lpc' = "range" /\ ltodo' = DOMAIN Repos
    /\ litems' = <<>>
    /\ last' = NoEvent
    /\ UNCHANGED <<actors, Repos, rpc, rname, rpath, rmutex, coordVars,
                   crashed, rclosed, lcur, lenabled, lstart, startVars>>

\* r.mutex.Lock(); items := make([]RegistryItem, 0, len(r.Repos));
\* for _, repo := range r.Repos.
\* Called from the goroutine
\* of the command line or of the UI.
ListLock ==
    /\ ~crashed /\ lpc = "idle" /\ ~rmutex /\ budget > 0
    /\ budget' = budget - 1
    /\ rmutex' = TRUE
    /\ lpc' = "range" /\ ltodo' = DOMAIN Repos
    /\ litems' = <<>>
    /\ last' = NoEvent
    /\ UNCHANGED <<actors, Repos, rpc, rname, rpath, coordVars, crashed,
                   rclosed, lcur, lenabled, lstart, startVars>>

\* One iteration, up to "Enabled: repo.Active": a plain read of the field.
ListReadActive ==
    /\ ~crashed /\ lpc = "range"
    /\ \E n \in ltodo :
        /\ ltodo' = ltodo \ {n}
        /\ lcur' = Repos[n]
        /\ lenabled' = actors[Repos[n]].Active
        /\ lstart' = Len(actors[Repos[n]].handled)
    /\ lpc' = "readDocker"
    /\ last' = NoEvent
    /\ UNCHANGED <<actors, regVars, coordVars, crashed, budget, rclosed,
                   litems, startVars>>

\* "HasDockerfile: repo.IsDocker" and the append of the item.  The item's
\* other fields are constants and time stamps (ID repeats Name, GitRepo is
\* nil) and are left out.
ListReadDocker ==
    /\ ~crashed /\ lpc = "readDocker"
    /\ last' = Event("ListItem", actors[lcur].Name, actors[lcur].Path,
                     [Enabled |-> lenabled,
                      HasDockerfile |-> actors[lcur].IsDocker,
                      actor |-> lcur, from |-> lstart])
    /\ litems' = Append(litems, [Name |-> actors[lcur].Name,
                                  Path |-> actors[lcur].Path,
                                  Enabled |-> lenabled,
                                  HasDockerfile |-> actors[lcur].IsDocker])
    /\ lpc' = "range" /\ lcur' = 0 /\ lenabled' = FALSE /\ lstart' = 0
    /\ UNCHANGED <<actors, regVars, coordVars, crashed, budget, rclosed, ltodo,
                   startVars>>

\* The range loop is over: the deferred Unlock, return items.
ListReturn ==
    /\ ~crashed /\ lpc = "range" /\ ltodo = {}
    /\ lpc' = "idle" /\ rmutex' = FALSE
    /\ last' = NoEvent
    /\ UNCHANGED <<actors, Repos, rpc, rname, rpath, coordVars, crashed,
                   budget, rclosed, ltodo, lcur, lenabled, lstart, litems,
                   startVars>>

\* ---------------------------------------------------------------- system

EmptyMap == [n \in {} |-> 0]

\* The CoordinatorActor and its inputs are idle.
CoordIdle ==
    /\ Graph = EmptyMap
    /\ Completed = {}
    /\ cpc = "recv" /\ ctodo = {} /\ ccur = None /\ ctarget = 0
    /\ cmutex = FALSE /\ cmsg = None /\ cbefore = {}
    /\ cissued = [n \in Names |-> <<0, 0>>]

\* NewRegistry has returned, MsgChan is open and nobody is in ListItems.
ExtIdle ==
    /\ rclosed = FALSE
    /\ lpc = "idle" /\ ltodo = {} /\ lcur = 0
    /\ lenabled = FALSE /\ lstart = 0 /\ litems = <<>>
    /\ npc = "done" /\ ntodo = {}

\* NewRegistryActor, NewCoordinatorActor: empty maps, nothing running yet.
Init ==
    /\ actors = <<>>
    /\ Repos = EmptyMap
    /\ rpc = "recv" /\ rname = None /\ rpath = None /\ rmutex = FALSE
    /\ CoordIdle
    /\ ExtIdle
    /\ crashed = FALSE
    /\ budget = MaxCmds
    /\ last = NoEvent

ActorNext ==
    \/ \E w \in 1..Len(actors) : ActorHandle(w)
    \/ \E w \in 1..Len(actors) : ActorExit(w)

\* The clients' sends to RegistryActor.MsgChan, for the given names and paths.
RegistryInput(names, paths) ==
    \/ \E n \in names, p \in paths : RecvAddRepo(n, p)
    \/ \E n \in names : RecvRemoveRepo(n)
    \/ \E n \in names : RecvToggleRepo(n)
    \/ \E n \in names : RecvConfigureRepo(n)

\* The handlers' steps after the lookup.
RegistryStep ==
    \/ AddInsert
    \/ AddSendInit
    \/ RemoveSend
    \/ RemoveClose
    \/ RemoveDelete
    \/ ToggleSend
    \/ ConfigureSendDocker
    \/ ConfigureSendPipeline

CoordInput ==
    \/ \E n \in Names, d \in DepChoices : AddDependency(n, d)
    \/ \E n \in Names : RecvRepoCompleted(n)

CoordStep ==
    \/ ScanEntry
    \/ CoordSendDocker
    \/ CoordLookupPipeline
    \/ CoordSendPipeline
    \/ CoordSendPanic
    \/ ScanDone

Next == ActorNext \/ RegistryInput(Names, Paths) \/ RegistryStep

Spec == Init /\ [][Next]_vars

\* The graph {A: [], B: [A], C: [B]}.
ChainGraph == [n \in Names |-> IF n = "A" THEN {} ELSE IF n = "B" THEN {"A"} ELSE {"B"}]

InitGraphs == {EmptyMap, ChainGraph}

\* A RepoActor that has handled the InitRepo sent by addRepo.
Initialized(name, path) ==
    [NewRepoActor(name, path) EXCEPT !.handled = <<"InitRepo">>]

\* The state discoverRepositories is written to set up: AddRepo was handled
\* for A, B and C, each RepoActor has handled its InitRepo, and
\* AddDependency was called for none or for each.
\* The registry part of this state is reached from Init by three AddRepo
\* commands under Spec, the graph by three AddDependency calls.  Starting
\* here keeps the runs with the CoordinatorActor small: the commands that
\* follow address B (the middle of the chain), the RepoCompleted messages
\* and the AddDependency calls any name.
InitCoord ==
    /\ actors = <<Initialized("A", "p1"), Initialized("B", "p1"),
                  Initialized("C", "p1")>>
    /\ Repos = [n \in Names |-> IF n = "A" THEN 1 ELSE IF n = "B" THEN 2 ELSE 3]
    /\ rpc = "recv" /\ rname = None /\ rpath = None /\ rmutex = FALSE
    /\ Graph \in InitGraphs
    /\ Completed = {}
    /\ cpc = "recv" /\ ctodo = {} /\ ccur = None /\ ctarget = 0
    /\ cmutex = FALSE /\ cmsg = None /\ cbefore = {}
    /\ cissued = [n \in Names |-> <<0, 0>>]
    /\ ExtIdle
    /\ crashed = FALSE
    /\ budget = MaxInputs
    /\ last = NoEvent

NextCoord ==
    \/ ActorNext
    \/ RegistryInput(CoordCmdNames, CoordPaths)
    \/ RegistryStep
    \/ CoordInput
    \/ CoordStep

SpecCoord == InitCoord /\ [][NextCoord]_vars

\* The names, paths, dependency lists and completion messages of the runs
\* of the whole program (SpecLive).
LiveNames == {"A"}
LivePaths == {"p1"}
LiveDeps == {{}, {"B"}}
LiveNotes == {"A", "B"}

\* The state discoverRepositories is written to set up for one repository,
\* the base repository: AddRepo was handled for A, its RepoActor has
\* handled InitRepo, and AddDependency(A, []) was called.
InitLive ==
    /\ actors = <<Initialized("A", "p1")>>
    /\ Repos = [n \in {"A"} |-> 1]
    /\ rpc = "recv" /\ rname = None /\ rpath = None /\ rmutex = FALSE
    /\ Graph = [n \in {"A"} |-> {}]
    /\ Completed = {}
    /\ cpc = "recv" /\ ctodo = {} /\ ccur = None /\ ctarget = 0
    /\ cmutex = FALSE /\ cmsg = None /\ cbefore = {}
    /\ cissued = [n \in Names |-> <<0, 0>>]
    /\ ExtIdle
    /\ crashed = FALSE
    /\ budget = MaxLive
    /\ last = NoEvent

ScanInput == \E f \in LiveNames \cup {None}, p \in LivePaths : RecvScanDir(f, p)

ShutdownNext ==
    \/ Shutdown
    \/ SendAfterClose

\* The steps of the RegistryActor's goroutine.
RegistryRun ==
    \/ RegistryStep
    \/ ScanSendPanic
    \/ RegistryExit

CoordInputLive ==
    \/ \E d \in LiveDeps : AddDependency("A", d)
    \/ \E n \in LiveNotes : RecvRepoCompleted(n)

\* The steps of a ListItems call after it has the mutex.
ListRun ==
    \/ ListReadActive
    \/ ListReadDocker
    \/ ListReturn

NextLive ==
    \/ ActorNext
    \/ RegistryInput(LiveNames, LivePaths)
    \/ ScanInput
    \/ ShutdownNext
    \/ RegistryRun
    \/ CoordInputLive
    \/ CoordStep
    \/ ListLock
    \/ ListRun

\* Every goroutine that can take a step eventually takes one; the inputs of
\* the environment (commands, completion messages, calls, signals) are not
\* forced.
Fairness ==
    /\ WF_vars(ActorNext)
    /\ WF_vars(RegistryRun)
    /\ WF_vars(CoordStep)
    /\ WF_vars(ListRun)

SpecLive == InitLive /\ [][NextLive]_vars /\ Fairness

\* ListItems calls among the commands for B, from the registry of A, B
\* and C.
NextList ==
    \/ ActorNext
    \/ RegistryInput(CoordCmdNames, CoordPaths)
    \/ RegistryStep
    \/ ListLock
    \/ ListRun

SpecList == InitCoord /\ [][NextList]_vars

\* ------------------------------------- NewRegistry, unrecognized messages

\* The git repositories discoverRepositories may find under ProjectsPath.
DiscNames == {"A", "B"}

\* NewRegistry after NewRegistryActor and NewCoordinatorActor: the maps are
\* empty, the channels are made, no goroutine of an actor runs; the call of
\* discoverRepositories is next.
InitStart ==
    /\ actors = <<>>
    /\ Repos = EmptyMap
    /\ rpc = "notStarted" /\ rname = None /\ rpath = None /\ rmutex = FALSE
    /\ Graph = EmptyMap
    /\ Completed = {}
    /\ cpc = "notStarted" /\ ctodo = {} /\ ccur = None /\ ctarget = 0
    /\ cmutex = FALSE /\ cmsg = None /\ cbefore = {}
    /\ cissued = [n \in Names |-> <<0, 0>>]
    /\ rclosed = FALSE
    /\ lpc = "idle" /\ ltodo = {} /\ lcur = 0
    /\ lenabled = FALSE /\ lstart = 0 /\ litems = <<>>
    /\ npc = "discover" /\ ntodo = {}
    /\ crashed = FALSE
    /\ budget = MaxCmds
    /\ last = NoEvent

\* discoverRepositories, up to its first send: os.ReadDir and the tests of
\* the entries; found is the set of entries that are git repositories.  With
\* none the loop ends without a send and the function returns nil.
Discover(found) ==
    /\ ~crashed /\ npc = "discover"
    /\ ntodo' = found
    /\ npc' = IF found = {} THEN "start" ELSE "send"
    /\ last' = Event("Discover", None, None,
                     IF found = {} THEN "nothingFound" ELSE "found")
    /\ UNCHANGED <<actors, regVars, coordVars, crashed, budget, rclosed,
                   listVars>>

\* A send on RegistryActor.MsgChan can complete: the channel is unbuffered,
\* so the RegistryActor's goroutine has to be at its receive.
RegistrySendReady == rpc = "recv" /\ ~rclosed

\* r.RegistryActor.MsgChan <- AddRepo{...} in discoverRepositories, made
\* before RegistryActor.Start: no goroutine receives from the channel and
\* main stays at the send.  When the runtime finds no goroutine that can
\* run it ends the process ("all goroutines are asleep - deadlock!");
\* otherwise main stays blocked.
DiscoverDeadlock ==
    /\ ~crashed /\ npc = "send" /\ ~RegistrySendReady
    /\ crashed' = TRUE
    /\ last' = Event("panic", None, None, "deadlock")
    /\ UNCHANGED <<actors, regVars, coordVars, budget, extVars>>

\* reg.RegistryActor.Start(); reg.Coordinator.Start(); return reg, nil
StartActors ==
    /\ ~crashed /\ npc = "start"
    /\ rpc' = "recv" /\ cpc' = "recv"
    /\ npc' = "done"
    /\ last' = NoEvent
    /\ UNCHANGED <<actors, Repos, rname, rpath, rmutex, Graph, Completed,
                   ctodo, ccur, ctarget, cmutex, cmsg, cbefore, cissued,
                   crashed, budget, rclosed, listVars, ntodo>>

\* default case of RegistryActor.Start: a value of another type is received,
\* "Unknown message type" is printed, the loop goes on.
RecvUnknown ==
    /\ RegistryReceives
    /\ budget' = budget - 1
    /\ rpc' = "recv" /\ rname' = None /\ rpath' = None
    /\ last' = Event("Unknown", None, None, "dropped")
    /\ UNCHANGED <<actors, Repos, rmutex, coordVars, crashed, extVars>>

\* A value of another type is sent on w's MsgChan (a chan interface{} in an
\* exported field): RepoActor.Start receives it in its default case.
SendUnknown(w) ==
    /\ ~crashed /\ npc = "done" /\ budget > 0
    /\ CanSend(w)
    /\ budget' = budget - 1
    /\ actors' = Deliver(w, "Unknown")
    /\ last' = NoEvent
    /\ UNCHANGED <<regVars, coordVars, crashed, extVars>>

\* The steps of NewRegistry in the goroutine of main.
NewRegistryRun ==
    \/ \E found \in SUBSET DiscNames : Discover(found)
    \/ StartActors

UnknownInput ==
    \/ RecvUnknown
    \/ \E w \in 1..Len(actors) : SendUnknown(w)

\* The program from the call of NewRegistry on; once it has returned, the
\* commands of the clients, of a recognized kind or not.
NextStart ==
    \/ NewRegistryRun
    \/ DiscoverDeadlock
    \/ ActorNext
    \/ RegistryInput(LiveNames, LivePaths)
    \/ RegistryStep
    \/ UnknownInput

\* main and every goroutine that can take a step eventually take one; the
\* runtime's deadlock detection and the clients' inputs are not forced.
FairnessStart ==
    /\ WF_vars(NewRegistryRun)
    /\ WF_vars(ActorNext)
    /\ WF_vars(RegistryStep)

SpecStart == InitStart /\ [][NextStart]_vars /\ FairnessStart

\* ---------------------------------------------------------------- claims

Actors == 1..Len(actors)

\* Number of occurrences of m in seq.
Count(seq, m) == Cardinality({i \in 1..Len(seq) : seq[i] = m})

\* The CoordinatorActor is at one of its two sends to ccur.
CoordIssuing == cpc \in {"sendDocker", "lookupPipeline", "sendPipeline"}

\* handleCompletion has just returned.
HandlingDone == last.kind = "RepoCompleted" /\ last.result = "handled"

\* C1: the directory binds each name to an actor of that name, no two
\* actors with an open mailbox have the same name, and a bound actor's
\* mailbox is closed only while removeRepo is about to delete the entry:
\* a name that was removed and added again is bound to a new actor, never
\* to the closed one it had before.
C1_OneWorkerPerName ==
    /\ \A n \in DOMAIN Repos :
          Repos[n] \in Actors /\ actors[Repos[n]].Name = n
    /\ \A w1, w2 \in Actors :
          (w1 # w2 /\ actors[w1].Name = actors[w2].Name)
              => (actors[w1].closed \/ actors[w2].closed)
    /\ \A n \in DOMAIN Repos :
          actors[Repos[n]].closed => (rpc = "rmDelete" /\ rname = n)

\* A name bound to a second actor after its first one was removed.
C1_Witness ==
    \E n \in DOMAIN Repos : \E w \in Actors :
        /\ w # Repos[n] /\ actors[w].Name = n /\ actors[w].closed
        /\ ~actors[Repos[n]].closed

\* C2: a step that receives AddRepo for a name already in the directory
\* changes no actor (no field, no message delivered) and no directory
\* entry, and leaves the RegistryActor at its receive, with no send pending.
C2_DuplicateRejected ==
    [][(last'.kind = "AddRepo" /\ last'.name \in DOMAIN Repos)
          => (actors' = actors /\ Repos' = Repos /\ rpc' = "recv" /\ ~rmutex')]_vars

\* A duplicate AddRepo with another path, for an entity that was toggled
\* and configured.
C2_Witness ==
    /\ last.kind = "AddRepo" /\ last.result = "duplicate"
    /\ last.name \in DOMAIN Repos
    /\ actors[Repos[last.name]].Path # last.path
    /\ ~actors[Repos[last.name]].Active
    /\ Len(actors) = 1

\* Every message sent to actor w has been handled: its goroutine holds none
\* and toggleRepo is not at its send to it.
Quiet(w) ==
    /\ actors[w].pc # "busy"
    /\ ~(rpc = "tgSend" /\ Repos[rname] = w)

\* C3: once every message sent to an actor has been handled, each ToggleRepo
\* command routed to it has been handled once, and its Active flag is the
\* initial value (true) flipped once per such command, whoever sent the
\* configuration messages in between.
C3_TogglesAppliedOnce ==
    \A w \in Actors :
        Quiet(w)
            => /\ Count(actors[w].handled, "ToggleRepo") = actors[w].toggleCmds
               /\ actors[w].Active = (actors[w].toggleCmds % 2 = 0)

\* Two toggles, and configuration messages from the RegistryActor and from
\* the CoordinatorActor in between.
C3_Witness ==
    \E w \in Actors :
        /\ Quiet(w) /\ actors[w].pc = "recv"
        /\ actors[w].toggleCmds = 2
        /\ Count(actors[w].handled, "ConfigureDocker") >= 1
        /\ cissued[actors[w].Name][1] >= 1
        /\ actors[w].handled[Len(actors[w].handled)] = "ToggleRepo"

\* C4: whenever an active actor finishes handling ConfigureDocker, IsDocker
\* is true and addDockerfile has been called exactly once in the actor's
\* life, also when the message is the second of two in a row; the same for
\* ConfigurePipeline, HasPipeline and setupPipeline.
C4_ConfiguredOnce ==
    [][\A w \in Actors :
          (actors[w].pc = "busy" /\ actors'[w].pc = "recv" /\ actors[w].Active)
              => /\ actors[w].msg = "ConfigureDocker"
                      => (actors'[w].IsDocker /\ actors'[w].dockerCalls = 1)
                 /\ actors[w].msg = "ConfigurePipeline"
                      => (actors'[w].HasPipeline /\ actors'[w].pipelineCalls = 1)]_vars

\* An actor that was never toggled has handled ConfigureDocker twice in a
\* row.
C4_Witness ==
    \E w \in Actors :
        /\ Count(actors[w].handled, "ToggleRepo") = 0
        /\ actors[w].pc = "recv" /\ actors[w].Active
        /\ \E i \in 1..Len(actors[w].handled) - 1 :
              /\ actors[w].handled[i] = "ConfigureDocker"
              /\ actors[w].handled[i + 1] = "ConfigureDocker"
        /\ actors[w].IsDocker /\ actors[w].dockerCalls = 1

\* C5: an actor whose Active flag is false handles ConfigureDocker and
\* ConfigurePipeline without calling addDockerfile or setupPipeline and
\* without changing IsDocker or HasPipeline.
C5_InactiveNoOp ==
    [][\A w \in Actors :
          (/\ actors[w].pc = "busy" /\ actors'[w].pc = "recv"
           /\ actors[w].msg \in {"ConfigureDocker", "ConfigurePipeline"}
           /\ ~actors[w].Active)
              => /\ actors'[w].IsDocker = actors[w].IsDocker
                 /\ actors'[w].HasPipeline = actors[w].HasPipeline
                 /\ actors'[w].dockerCalls = actors[w].dockerCalls
                 /\ actors'[w].pipelineCalls = actors[w].pipelineCalls
                 /\ actors'[w].dockerWritten = actors[w].dockerWritten
                 /\ actors'[w].pipelineWritten = actors[w].pipelineWritten]_vars

\* An inactive actor has handled both configuration messages sent by the
\* CoordinatorActor.
C5_Witness ==
    \E w \in Actors :
        /\ ~actors[w].Active /\ actors[w].pc = "recv"
        /\ actors[w].handled =
              <<"InitRepo", "ToggleRepo", "ConfigureDocker", "ConfigurePipeline">>
        /\ cissued[actors[w].Name] = <<1, 1>>
        /\ ~actors[w].IsDocker /\ ~actors[w].HasPipeline
        /\ actors[w].dockerCalls = 0 /\ actors[w].pipelineCalls = 0

\* C6: a configuration guard is true only after the collaborator wrote the
\* descriptor: a failed materialization leaves the guard false.
C6_GuardOnlyAfterSuccess ==
    \A w \in Actors :
        /\ actors[w].IsDocker => actors[w].dockerWritten
        /\ actors[w].HasPipeline => actors[w].pipelineWritten

\* C7: while the CoordinatorActor is at its sends of ConfigureDocker and
\* ConfigurePipeline to an entity, every prerequisite of that entity is in
\* the completion set and the entity itself is not.
C7_IssuesOnlyWhenEligible ==
    CoordIssuing
        => /\ ccur \in DOMAIN Graph
           /\ \A d \in Graph[ccur] : d \in Completed
           /\ ccur \notin Completed

\* The second send to an entity that has a prerequisite.
C7_Witness ==
    /\ cpc = "sendPipeline" /\ ccur \in DOMAIN Graph
    /\ Graph[ccur] # {}
    /\ cissued[ccur] = <<1, 0>>

\* The case of C8: the graph is {A: [], B: [A], C: [B]}, the completion set
\* was empty when RepoCompleted(A) arrived, and its handling has returned.
C8_Case ==
    /\ HandlingDone /\ cmsg = "A" /\ cbefore = {}
    /\ Graph = ChainGraph

\* C8 as claimed: then only A is in the completion set.
C8_OnlyACompleted == C8_Case => Completed = {"A"}

\* C8 amended: then A and B are in the completion set (B was configured and
\* marked in the same pass), and C is too when the range visited B before C.
C8_AAndBCompleted ==
    C8_Case => (Completed = {"A", "B"} \/ Completed = {"A", "B", "C"})

\* The pass that visited C before B.
C8_Witness == C8_Case /\ Completed = {"A", "B"} /\ cissued["B"] = <<1, 1>>

\* C9: the CoordinatorActor delivers at most one ConfigureDocker and at most
\* one ConfigurePipeline per name, and is at its sends only for a name that
\* is not in the completion set.
C9_AtMostOnce ==
    /\ \A n \in Names : cissued[n][1] <= 1 /\ cissued[n][2] <= 1
    /\ CoordIssuing => ccur \notin Completed

\* A repeated RepoCompleted for a completed name has been handled, after the
\* CoordinatorActor configured an entity.
C9_Witness ==
    /\ HandlingDone /\ cmsg \in cbefore
    /\ \E n \in Names : cissued[n] = <<1, 1>>

\* C10: when handleCompletion returns, no graph entry is left that is not
\* completed while all of its prerequisites are.
C10_NoMissedTrigger ==
    HandlingDone
        => \A n \in DOMAIN Graph :
              n \in Completed \/ \E d \in Graph[n] : d \notin Completed

\* C11: no step takes a name out of the completion set, whatever the
\* interleaving of RepoCompleted handling and AddDependency calls.
C11_CompletedOnlyGrows == [][Completed \subseteq Completed']_vars

\* Two names completed, one of them by the CoordinatorActor's own marking,
\* after an AddDependency call and a repeated RepoCompleted.
C11_Witness ==
    /\ HandlingDone /\ cmsg \in cbefore
    /\ Cardinality(Completed) >= 2
    /\ Graph \notin InitGraphs

\* The positions at which a handler of the RegistryActor sends to the actor
\* it found for rname.
RegistrySends == {"rmSend", "tgSend", "cfSendDocker", "cfSendPipeline"}

RoutedCommands == {"ToggleRepo", "ConfigureRepo", "RemoveRepo"}

\* The last message handled by actor w, None when it has handled none.
LastHandled(w) ==
    IF actors[w].handled = <<>> THEN None
    ELSE actors[w].handled[Len(actors[w].handled)]

\* C12: a ToggleRepo, ConfigureRepo or RemoveRepo for a name that is not in
\* the directory (removed and not added again) is reported as not found and
\* leaves the RegistryActor at its receive; a handler is at a send only to an
\* actor whose mailbox is open; and the last message a removed actor ever
\* receives is the ReportCompletion sent by removeRepo.
C12_RemovedNotFound ==
    /\ (last.kind \in RoutedCommands /\ last.name \notin DOMAIN Repos)
          => (last.result = "notFound" /\ rpc = "recv" /\ ~rmutex)
    /\ rpc \in RegistrySends => ~actors[Repos[rname]].closed
    /\ \A w \in Actors :
          actors[w].closed
              => IF actors[w].pc = "busy"
                 THEN actors[w].msg = "ReportCompletion"
                 ELSE LastHandled(w) = "ReportCompletion"

\* A ToggleRepo for a name whose actor was removed and has ended.
C12_Witness ==
    /\ last.kind = "ToggleRepo" /\ last.result = "notFound"
    /\ last.name \notin DOMAIN Repos
    /\ \E w \in Actors :
          /\ actors[w].Name = last.name /\ actors[w].closed
          /\ actors[w].pc = "exit"
          /\ LastHandled(w) = "ReportCompletion"

\* C13: the actor addRepo has just created and registered is the newest
\* one, active, with both guards false and nothing handled; and in every
\* state an actor that has handled no ToggleRepo is active, one that has
\* handled no ConfigureDocker has IsDocker false, one that has handled no
\* ConfigurePipeline has HasPipeline false, whatever an earlier actor of
\* the same name did.
C13_FreshEntity ==
    /\ rpc = "addSendInit"
          => /\ Repos[rname] = Len(actors)
             /\ actors[Repos[rname]].Name = rname
             /\ actors[Repos[rname]].Path = rpath
             /\ actors[Repos[rname]].Active
             /\ ~actors[Repos[rname]].IsDocker
             /\ ~actors[Repos[rname]].HasPipeline
             /\ actors[Repos[rname]].handled = <<>>
             /\ ~actors[Repos[rname]].closed
    /\ \A w \in Actors :
          /\ Count(actors[w].handled, "ToggleRepo") = 0 => actors[w].Active
          /\ Count(actors[w].handled, "ConfigureDocker") = 0
                => ~actors[w].IsDocker
          /\ Count(actors[w].handled, "ConfigurePipeline") = 0
                => ~actors[w].HasPipeline

\* A name added again after its first actor was configured and removed.
C13_Witness ==
    /\ rpc = "addSendInit"
    /\ \E w \in Actors :
          /\ w # Repos[rname] /\ actors[w].Name = rname
          /\ actors[w].closed
          /\ actors[w].IsDocker /\ actors[w].HasPipeline
    /\ ~actors[Repos[rname]].IsDocker /\ ~actors[Repos[rname]].HasPipeline

\* C17: while an actor is handling InitRepo, no handler of the RegistryActor
\* is waiting at a send to that actor, holding the directory mutex.
C17_RegistryNotBlockedByInit ==
    \A w \in Actors :
        (actors[w].pc = "busy" /\ actors[w].msg = "InitRepo")
            => ~(rpc \in RegistrySends /\ Repos[rname] = w /\ rmutex)

\* C18: a send to a mailbox closed by removeRepo never ends in a panic.
C18_ClosedSendNoPanic ==
    ~(crashed /\ last.kind = "panic" /\ last.result = "closedChannel")

\* The fields of actor w after the first k messages it handled: the switch of
\* Start applied to them in order, from the state NewRepoActor built.
RECURSIVE Replay(_, _)
Replay(w, k) ==
    IF k = 0
    THEN NewRepoActor(actors[w].Name, actors[w].Path)
    ELSE Handle(Replay(w, k - 1), actors[w].handled[k], TRUE)

\* C14: an item ListItems built while the actor handled a ToggleRepo carries
\* in Enabled and HasDockerfile the values of Active and IsDocker of one
\* state the actor was in between the two reads (before or after the
\* toggle), never a mix of two states.
C14_ItemFromOneState ==
    (last.kind = "ListItem"
        /\ \E k \in last.result.from + 1..Len(actors[last.result.actor].handled) :
              actors[last.result.actor].handled[k] = "ToggleRepo")
        => \E k \in last.result.from..Len(actors[last.result.actor].handled) :
              /\ Replay(last.result.actor, k).Active = last.result.Enabled
              /\ Replay(last.result.actor, k).IsDocker = last.result.HasDockerfile

\* C15: while ListItems is between its reads of an actor's fields, that
\* actor's goroutine is not inside a handler (which writes the fields).
C15_NoReadDuringHandler ==
    lpc = "readDocker" => actors[lcur].pc # "busy"

\* Once at the send of scanDirectory the RegistryActor stays there and the
\* directory does not change, whatever inputs are still to come.
ScanSendBlocks ==
    [][rpc = "scanSend" => (rpc' = "scanSend" /\ Repos' = Repos)]_vars

\* C16: when scanDirectory has found a repository, that repository is
\* eventually in the directory and the RegistryActor back at its receive
\* (unless a panic has ended the process).
C16_ScanRegisters ==
    \A n \in LiveNames :
        (rpc = "scanSend" /\ rname = n)
            ~> ((n \in DOMAIN Repos /\ rpc = "recv") \/ crashed)

\* In no reachable state can the wait return.
WaitNeverReturns == ~WaitCanReturn

\* C19: once main has closed RegistryActor.MsgChan, the wait on the
\* WaitGroup of all actors eventually can return (unless a panic has ended
\* the process).
C19_ShutdownCompletes == rclosed ~> (WaitCanReturn \/ crashed)

\* The CoordinatorActor receives a RepoCompleted only as an input of the
\* environment: no step of the program sends one.
OnlyEnvironmentReports == [][cmsg' # cmsg => budget' < budget]_vars

\* C20: once an actor has handled InitRepo, the CoordinatorActor eventually
\* receives RepoCompleted with that actor's name (unless a panic has ended
\* the process).
C20_CompletionReported ==
    \A w \in 1..MaxActors :
        (w <= Len(actors) /\ Count(actors[w].handled, "InitRepo") > 0)
            ~> ((w <= Len(actors) /\ cmsg = actors[w].Name) \/ crashed)

\* C21: a step that receives ToggleRepo, ConfigureRepo or RemoveRepo for a
\* name that is not in the directory reports not found, changes neither the
\* directory nor any actor (no message is delivered), does not end the
\* process and leaves the RegistryActor at its receive with the mutex free.
C21_NotFoundChangesNothing ==
    [][(last'.kind \in RoutedCommands /\ last'.name \notin DOMAIN Repos)
          => /\ last'.result = "notFound"
             /\ Repos' = Repos /\ actors' = actors
             /\ rpc' = "recv" /\ ~rmutex' /\ ~crashed']_vars

\* A ConfigureRepo for a name that never had an actor, while another name
\* is registered.
C21_Witness ==
    /\ last.kind = "ConfigureRepo" /\ last.result = "notFound"
    /\ \A w \in Actors : actors[w].Name # last.name
    /\ DOMAIN Repos # {}

\* C22: handleCompletion never ends in the panic of a nil *RepoActor: a
\* qualifying graph entry whose name is not in the directory does not end
\* the process.
C22_MissingNameNoPanic ==
    ~(crashed /\ last.kind = "panic" /\ last.result = "nilActor")

\* C23: when addRepo is at its send of InitRepo the name is in the
\* directory, bound to an actor whose goroutine runs and was not sent
\* InitRepo yet; an actor that was sent a message is, or was until its
\* removal, the one the directory binds its name to; and the actor found by
\* a lookup under the mutex (toggleRepo, configureRepo, removeRepo,
\* ListItems) is one whose goroutine was started and has not ended.
C23_RegisteredBeforeInit ==
    /\ rpc = "addSendInit"
          => /\ rname \in DOMAIN Repos
             /\ actors[Repos[rname]].pc # "exit"
             /\ actors[Repos[rname]].msg # "InitRepo"
             /\ Count(actors[Repos[rname]].handled, "InitRepo") = 0
    /\ \A w \in Actors :
          (actors[w].msg # None \/ actors[w].handled # <<>>)
              => \/ actors[w].closed
                 \/ /\ actors[w].Name \in DOMAIN Repos
                    /\ Repos[actors[w].Name] = w
    /\ rpc \in RegistrySends
          => /\ rname \in DOMAIN Repos
             /\ Repos[rname] \in Actors
             /\ actors[Repos[rname]].pc # "exit"
    /\ lpc = "readDocker"
          => (lcur \in Actors /\ actors[lcur].pc # "exit")

\* ListItems reads an actor added after a removal while that actor is
\* handling its InitRepo.
C23_Witness ==
    /\ lpc = "readDocker" /\ lcur > 1
    /\ actors[lcur].pc = "busy" /\ actors[lcur].msg = "InitRepo"
    /\ actors[lcur].handled = <<>>

\* The order of removeRepo and what it means for the actor: ReportCompletion
\* is delivered before the close, the close comes before the delete, a
\* closed mailbox received nothing after ReportCompletion, and an actor
\* whose goroutine has ended was closed, handled ReportCompletion once and
\* last, and had handled every ToggleRepo routed to it.
RemoveOrder ==
    /\ rpc = "rmSend" => ~actors[Repos[rname]].closed
    /\ rpc = "rmClose"
          => /\ ~actors[Repos[rname]].closed
             /\ IF actors[Repos[rname]].pc = "busy"
                THEN actors[Repos[rname]].msg = "ReportCompletion"
                ELSE LastHandled(Repos[rname]) = "ReportCompletion"
    /\ rpc = "rmDelete"
          => (rname \in DOMAIN Repos /\ actors[Repos[rname]].closed)
    /\ \A w \in Actors :
          actors[w].closed
              => /\ Count(actors[w].handled, "ReportCompletion")
                      + (IF actors[w].pc = "busy" THEN 1 ELSE 0) = 1
                 /\ actors[w].pc = "busy"
                      => actors[w].msg = "ReportCompletion"
    /\ \A w \in Actors :
          actors[w].pc = "exit"
              => /\ actors[w].closed
                 /\ LastHandled(w) = "ReportCompletion"
                 /\ Count(actors[w].handled, "ToggleRepo") = actors[w].toggleCmds

\* C24: removeRepo keeps that order in every state, and the goroutine of an
\* actor whose mailbox was closed eventually ends (unless a panic has ended
\* the process).
C24_RemoveIsFinal ==
    /\ []RemoveOrder
    /\ \A w \in 1..MaxActors :
          (w <= Len(actors) /\ actors[w].closed)
              ~> ((w <= Len(actors) /\ actors[w].pc = "exit") \/ crashed)

\* C25: the CoordinatorActor is never at its read of the directory map while
\* addRepo or removeRepo is at its write of the map.
C25_NoLookupDuringWrite == ~(cpc = "lookupPipeline" /\ MapWritePending)

\* C26: while a RepoCompleted is being handled the mutex is held, the graph
\* does not change and no other notification is taken up; a notification is
\* received only between two handlings and its name is added to the
\* completion set; and the name of every notification received so far stays
\* in the set together with all that was in it before.
C26_HandlingAtomic ==
    [][/\ cpc # "recv"
            => /\ cmutex
               /\ Graph' = Graph
               /\ cpc' # "recv" => (cmsg' = cmsg /\ cbefore' = cbefore)
       /\ (last'.kind = "RepoCompleted" /\ last'.result = "marked")
            => /\ cpc = "recv" /\ ~cmutex
               /\ Completed' = Completed \cup {last'.name}
       /\ cmsg' # None
            => (cmsg' \in Completed' /\ cbefore' \subseteq Completed')]_vars

\* Two notifications with different names have been handled, with an
\* AddDependency call made as well.
C26_Witness ==
    /\ HandlingDone /\ cbefore # {} /\ cmsg \notin cbefore
    /\ Graph \notin InitGraphs
    /\ cbefore \cup {cmsg} \subseteq Completed

\* C27: for the graph {A: [], B: [A], C: [B]} and an empty completion set,
\* the one pass made for RepoCompleted(A) sends nothing to A, configures B
\* once and completes it, and configures C at most once: C is completed
\* exactly when it was configured in this pass, and otherwise it is left
\* not completed although its prerequisite is: the pass is not repeated.
C27_SinglePass ==
    C8_Case
        => /\ {"A", "B"} \subseteq Completed
           /\ cissued["A"] = <<0, 0>> /\ cissued["B"] = <<1, 1>>
           /\ "C" \in Completed <=> cissued["C"] = <<1, 1>>
           /\ "C" \notin Completed
                => /\ cissued["C"] = <<0, 0>>
                   /\ AllDepsMet(Graph["C"], Completed)

\* The pass that visited B before C: C was configured and completed in it.
\* (The pass that visited C first is the state of C8_Witness.)
C27_Witness ==
    C8_Case /\ Completed = {"A", "B", "C"} /\ cissued["C"] = <<1, 1>>

\* C28: when handleCompletion returns, every name of the directory for
\* which no dependency list was declared is in the completion set.
C28_UndeclaredConfigured ==
    HandlingDone
        => \A n \in DOMAIN Repos : n \notin DOMAIN Graph => n \in Completed

\* The step in which a handler of the RegistryActor completes its send of m
\* to the actor t: only that actor changes, only by holding m now, and the
\* directory is unchanged.
Forwards(t, m) ==
    /\ actors' = [actors EXCEPT ![t].pc = "busy", ![t].msg = m]
    /\ Repos' = Repos

\* C29: configureRepo leaves its first send only by delivering
\* ConfigureDocker to the actor of the name and going to its second send;
\* it leaves the second only by delivering ConfigurePipeline to the same
\* actor, which by then has handled the ConfigureDocker as its last
\* message, and returning.  No other actor and no directory entry changes
\* in these steps.
C29_ConfigureForwardsTwo ==
    [][/\ (rpc = "cfSendDocker" /\ rpc' # rpc)
            => /\ rpc' = "cfSendPipeline" /\ rname' = rname
               /\ Forwards(Repos[rname], "ConfigureDocker")
       /\ (rpc = "cfSendPipeline" /\ rpc' # rpc)
            => /\ rpc' = "recv"
               /\ LastHandled(Repos[rname]) = "ConfigureDocker"
               /\ Forwards(Repos[rname], "ConfigurePipeline")]_vars

\* The second of two actors has handled both messages, in order; the first
\* has handled only its InitRepo.
C29_Witness ==
    /\ Len(actors) >= 2
    /\ actors[1].handled = <<"InitRepo">> /\ actors[1].pc = "recv"
    /\ actors[2].handled = <<"InitRepo", "ConfigureDocker", "ConfigurePipeline">>
    /\ actors[2].IsDocker /\ actors[2].HasPipeline

\* C30: InitRepo is the first message every actor receives and handles, and
\* it handles it at most once.
C30_InitFirst ==
    \A w \in Actors :
        /\ actors[w].handled # <<>> => actors[w].handled[1] = "InitRepo"
        /\ (actors[w].handled = <<>> /\ actors[w].pc = "busy")
              => actors[w].msg = "InitRepo"
        /\ Count(actors[w].handled, "InitRepo") <= 1

\* The messages actor w has received, in the order it received them: those
\* it has handled and the one its goroutine holds.
Stream(w) ==
    IF actors[w].pc = "busy"
    THEN Append(actors[w].handled, actors[w].msg)
    ELSE actors[w].handled

\* A handler of the RegistryActor is at position pc, for the actor w.
HandlerAt(pc, w) ==
    rpc = pc /\ rname \in DOMAIN Repos /\ Repos[rname] = w

\* The sequence s is what the handlers of the RegistryActor send to one
\* actor, in the order of their sends: InitRepo first and only first,
\* ConfigureDocker and ConfigurePipeline as a pair, ReportCompletion last.
SendOrder(s) ==
    \A i \in 1..Len(s) :
        /\ s[i] = "InitRepo" <=> i = 1
        /\ s[i] = "ConfigurePipeline" => s[i - 1] = "ConfigureDocker"
        /\ (s[i] = "ConfigureDocker" /\ i < Len(s))
              => s[i + 1] = "ConfigurePipeline"
        /\ s[i] = "ReportCompletion" => i = Len(s)

\* C31: with the RegistryActor as the sender, what an actor has received is
\* what the handlers have sent to it so far, in the order of the sends, each
\* message once: nothing before the InitRepo of addRepo, a ConfigureDocker
\* without its ConfigurePipeline only while configureRepo is at its second
\* send, one ToggleRepo per toggleRepo that has completed its send,
\* ReportCompletion once removeRepo has sent it and nothing after it.  An
\* actor holds a message only while it handles it, and the RegistryActor
\* takes a command only when the handler of the one before has returned.
C31_ProcessedInSendOrder ==
    /\ \A w \in Actors :
          /\ SendOrder(Stream(w))
          /\ Stream(w) = <<>> <=> HandlerAt("addSendInit", w)
          /\ (Stream(w) # <<>>
                  /\ Stream(w)[Len(Stream(w))] = "ConfigureDocker")
                <=> HandlerAt("cfSendPipeline", w)
          /\ Count(Stream(w), "ToggleRepo")
                = actors[w].toggleCmds
                    - (IF HandlerAt("tgSend", w) THEN 1 ELSE 0)
          /\ Count(Stream(w), "ReportCompletion") = 1
                <=> \/ HandlerAt("rmClose", w) \/ HandlerAt("rmDelete", w)
                    \/ actors[w].Name \notin DOMAIN Repos
                    \/ Repos[actors[w].Name] # w
          /\ actors[w].pc = "busy" <=> actors[w].msg # None
    /\ rpc = "recv" <=> ~rmutex
    /\ rpc = "recv" => rname = None

\* An actor that received one message of every kind the RegistryActor
\* sends: four handled in order, the fifth being handled.
C31_Witness ==
    \E w \in Actors :
        /\ actors[w].handled = <<"InitRepo", "ToggleRepo", "ConfigureDocker",
                                 "ConfigurePipeline">>
        /\ actors[w].pc = "busy" /\ actors[w].msg = "ReportCompletion"

\* C32: RemoveRepo and ConfigureRepo for one name are handled one after the
\* other, in either order.  configureRepo is at a send only to an actor that
\* is in the directory with its mailbox open; an actor whose mailbox was
\* closed has received as many ConfigurePipeline as ConfigureDocker (both of
\* a ConfigureRepo, or none); and a ConfigureRepo that does not find the name
\* leaves the RegistryActor at its receive and no configuration message with
\* any actor of that name.
C32_RemoveConfigureRace ==
    /\ rpc \in {"cfSendDocker", "cfSendPipeline"}
          => (rname \in DOMAIN Repos /\ ~actors[Repos[rname]].closed)
    /\ \A w \in Actors :
          actors[w].closed
              => Count(Stream(w), "ConfigureDocker")
                    = Count(Stream(w), "ConfigurePipeline")
    /\ last.kind = "ConfigureRepo"
          => IF last.result = "found"
             THEN rpc = "cfSendDocker" /\ rname = last.name
             ELSE /\ last.name \notin DOMAIN Repos /\ rpc = "recv"
                  /\ \A w \in Actors :
                        actors[w].Name = last.name
                            => actors[w].msg
                                  \notin {"ConfigureDocker", "ConfigurePipeline"}

\* Both orders in one run: a ConfigureRepo handled before the RemoveRepo
\* (the closed actor received the pair), and one handled after it (not
\* found).
C32_Witness ==
    /\ last.kind = "ConfigureRepo" /\ last.result = "notFound"
    /\ \E w \in Actors :
          /\ actors[w].Name = last.name /\ actors[w].closed
          /\ Count(actors[w].handled, "ConfigureDocker") = 1
          /\ Count(actors[w].handled, "ConfigurePipeline") = 1

\* C33: a sender at a send to an open mailbox never has to wait: the
\* receiving goroutine is not inside the handler of an earlier message while
\* a handler of the RegistryActor or handleCompletion is at a send to it.
C33_SendNeverWaits ==
    /\ rpc \in RegistrySends \cup {"addSendInit"}
          => \/ actors[Repos[rname]].closed
             \/ actors[Repos[rname]].pc # "busy"
    /\ cpc \in {"sendDocker", "sendPipeline"}
          => \/ actors[ctarget].closed
             \/ actors[ctarget].pc # "busy"

\* C34: the step in which the RegistryActor receives a message of an
\* unrecognized kind changes no actor and no directory entry, takes no
\* mutex and leaves the RegistryActor at its receive; the step in which an
\* actor handles one changes none of its fields and no directory entry, and
\* puts its goroutine back at its receive.  Neither ends the process.
C34_UnknownDropped ==
    [][/\ last'.kind = "Unknown"
            => /\ actors' = actors /\ Repos' = Repos
               /\ rpc' = "recv" /\ ~rmutex' /\ ~crashed'
       /\ \A w \in Actors :
            (actors[w].msg = "Unknown" /\ actors'[w].msg # "Unknown")
                => /\ actors'[w] = [actors[w] EXCEPT
                                       !.pc = "recv", !.msg = None,
                                       !.handled = Append(@, "Unknown")]
                   /\ Repos' = Repos /\ ~crashed']_vars

\* An inactive actor that handled a message of an unrecognized kind and then
\* the ToggleRepo and the ConfigureDocker that followed it.
C34_Witness ==
    \E w \in Actors :
        /\ actors[w].handled = <<"InitRepo", "Unknown", "ToggleRepo",
                                 "ConfigureDocker">>
        /\ ~actors[w].Active /\ ~actors[w].IsDocker

\* The fields of an entity other than its active flag.
Frame(a) == <<a.Name, a.Path, a.IsDocker, a.HasPipeline>>

\* C35: the step in which an actor handles ToggleRepo flips Active, whatever
\* its value and the values of the guards were, and leaves Name, Path,
\* IsDocker and HasPipeline as they were; the step in which it handles
\* ConfigureDocker, ConfigurePipeline, InitRepo or ReportCompletion leaves
\* Active as it was.
C35_ToggleFrame ==
    [][\A w \in Actors :
          (actors[w].pc = "busy" /\ actors'[w].pc # "busy")
              => IF actors[w].msg = "ToggleRepo"
                 THEN /\ actors'[w].Active = ~actors[w].Active
                      /\ Frame(actors'[w]) = Frame(actors[w])
                 ELSE actors'[w].Active = actors[w].Active]_vars

\* A configured actor toggled off and on again: both guards are still set.
C35_Witness ==
    \E w \in Actors :
        /\ Count(actors[w].handled, "ToggleRepo") = 2
        /\ actors[w].handled[2] = "ConfigureDocker"
        /\ actors[w].Active /\ actors[w].IsDocker /\ actors[w].HasPipeline

\* The entity fields of an actor.
Fields(a) == <<a.Name, a.Path, a.Active, a.IsDocker, a.HasPipeline>>

\* C36: the step in which an actor handles ReportCompletion changes none of
\* its fields, and no step of an actor's goroutine (the handling of a
\* message of any kind, the end of its loop) changes the CoordinatorActor:
\* not its graph, not its completion set, and no message reaches it.
C36_ReportIsInformational ==
    [][\A w \in Actors :
          /\ (actors[w].msg = "ReportCompletion" /\ actors'[w].msg = None)
                => Fields(actors'[w]) = Fields(actors[w])
          /\ (actors'[w].pc # actors[w].pc /\ actors'[w].pc # "busy")
                => /\ Graph' = Graph /\ Completed' = Completed
                   /\ cmsg' = cmsg /\ cpc' = cpc]_vars

\* A removed actor, inactive and configured, has handled ReportCompletion
\* and ended, while the CoordinatorActor has a graph entry for its name and
\* completed nothing.
C36_Witness ==
    \E w \in Actors :
        /\ LastHandled(w) = "ReportCompletion" /\ actors[w].pc = "exit"
        /\ ~actors[w].Active
        /\ actors[w].Name \in DOMAIN Graph /\ Completed = {}

\* The names of the items of a list.
ItemNames(items) == {items[i].Name : i \in 1..Len(items)}

\* C37: the directory does not change while a ListItems call is between its
\* Lock and its return; the list it returns has one item per name of the
\* directory and no other item, each with the Name and the Path of the actor
\* the directory binds the name to; an item holds the four values taken
\* from the entity and nothing else of it (no actor, no channel); and once
\* returned the list is not changed by any step of the program.
C37_ListIsSnapshot ==
    [][/\ lpc # "idle" => Repos' = Repos
       /\ (lpc = "range" /\ lpc' = "idle")
            => /\ ItemNames(litems') = DOMAIN Repos
               /\ Len(litems') = Cardinality(DOMAIN Repos)
               /\ \A i \in 1..Len(litems') :
                     /\ DOMAIN litems'[i]
                           = {"Name", "Path", "Enabled", "HasDockerfile"}
                     /\ litems'[i].Path = actors[Repos[litems'[i].Name]].Path
                     /\ litems'[i].Enabled \in BOOLEAN
                     /\ litems'[i].HasDockerfile \in BOOLEAN
       /\ (lpc = "idle" /\ lpc' = "idle") => litems' = litems]_vars

\* A list returned for A, B and C, after which B was toggled and removed:
\* the list still has the three items, B's as it was.
C37_Witness ==
    /\ lpc = "idle" /\ Len(litems) = 3
    /\ ItemNames(litems) = {"A", "B", "C"}
    /\ \A i \in 1..3 : litems[i].Enabled /\ ~litems[i].HasDockerfile
    /\ "B" \notin DOMAIN Repos
    /\ ~actors[2].Active

\* C38: when the handling of a RepoCompleted whose name was in the
\* completion set on arrival has returned, the completion set is what it was
\* on arrival (nothing was configured and marked).  The case: the only
\* inputs so far are two notifications, so that no AddDependency call and no
\* command happened since the first.
C38_RedeliveryNoOp ==
    (HandlingDone /\ cmsg \in cbefore /\ budget = MaxInputs - 2)
        => Completed = cbefore

\* C39: an actor of a name the CoordinatorActor has configured and marked
\* completed, once it has handled the ConfigureDocker and the
\* ConfigurePipeline, has both guards set.
C39_MarkedMeansConfigured ==
    \A w \in Actors :
        (/\ actors[w].Name \in Completed
         /\ cissued[actors[w].Name] = <<1, 1>>
         /\ Count(actors[w].handled, "ConfigureDocker") > 0
         /\ Count(actors[w].handled, "ConfigurePipeline") > 0)
            => (actors[w].IsDocker /\ actors[w].HasPipeline)

\* Once at its send discoverRepositories stays there: no goroutine receives
\* from the channel, the directory stays empty and no actor is started.
DiscoverySendBlocks ==
    [][npc = "send"
          => (~RegistrySendReady /\ npc' = "send" /\ Repos' = Repos
                /\ rpc' = "notStarted" /\ cpc' = "notStarted")]_vars

\* C40: when discoverRepositories has found at least one repository,
\* NewRegistry eventually returns with every repository found in the
\* directory and with the RegistryActor and the CoordinatorActor started.
C40_NewRegistryTerminates ==
    (npc = "send")
        ~> (/\ npc = "done" /\ ntodo \subseteq DOMAIN Repos
            /\ rpc # "notStarted" /\ cpc # "notStarted")
====
